---- MODULE Spec2Model ----
(***************************************************************************)
(* Model of the two pagination scripts of the repository:                  *)
(*   - fetch_bets_to_db.js  (sequence cursor `nonce`, Postgres or file     *)
(*     sink), and                                                           *)
(*   - sum_bets.js          (time cursor `before`).                         *)
(* One run of one script is modelled; `script` selects which.  The         *)
(* upstream HTTP service and the database are the environment: every       *)
(* response the code can receive is drawn from a bounded set.              *)
(***************************************************************************)
EXTENDS Integers, Sequences, FiniteSets, Bags, TLC

\* ------------------------------------------------------------------ bounds
MaxNonce == 1
MaxBatch == 1
MaxRequests == 3
MaxPagesBound == 2
MaxStep == 1
MaxTime == 1
MaxSinkBatch == 2
MaxSettlementBets == 2
MaxCursor == 2
MaxCursorStep == 2
MaxFixedPage == 2

Payloads == {"p1", "p2"}
Address == "A"

\* --------------------------------------------------- JavaScript value model
\* A JavaScript value that the scripts treat as a number or as "not a number":
\* a finite number, Infinity, NaN, undefined, or a non-numeric string.
Num(n) == [k |-> "num", v |-> n]
Infinity == [k |-> "inf", v |-> 0]
NaN == [k |-> "nan", v |-> 0]
Undefined == [k |-> "undefined", v |-> 0]
BadString == [k |-> "str", v |-> 0]

\* x || Infinity : undefined and 0 are falsy, a non-empty string is truthy
OrInfinity(x) ==
  IF x.k = "undefined" \/ x.k = "nan" \/ (x.k = "num" /\ x.v = 0)
  THEN Infinity ELSE x

\* Number(x) for the values above
ToNumber(x) ==
  CASE x.k = "num" -> x
    [] x.k = "inf" -> Infinity
    [] OTHER -> NaN

\* Math.min(a, b)
MathMin(a, b) ==
  CASE a.k = "nan" \/ b.k = "nan" -> NaN
    [] a.k = "inf" -> b
    [] b.k = "inf" -> a
    [] OTHER -> IF a.v <= b.v THEN a ELSE b

\* Number.isFinite(x)
IsFinite(x) == x.k = "num"

\* ------------------------------------------------------------ upstream data
\* A bet object of the bets endpoint: its nonce and the rest of its fields.
NonceValues == {Num(n) : n \in 0..MaxNonce} \cup {Undefined, BadString}
Bets == [nonce : NonceValues, payload : Payloads]

SeqsUpTo(S, n) == UNION {[1..m -> S] : m \in 1..n}
BetBatches == SeqsUpTo(Bets, MaxBatch)

\* An error thrown by axios: it carries a response with a status, or none
\* (network error, timeout).
HttpErrors == {[response |-> <<404>>], [response |-> <<500>>], [response |-> <<>>]}
\* `new Error('Unexpected response shape ...')` and node-postgres errors carry
\* no `response` property.
PlainError == [response |-> <<>>]

\* A settlement object of the recent-settlements endpoint: `finalized_at` is a
\* parseable ISO string (Num(t) stands for the string whose epoch value is t),
\* an unparsable string, or not a string; `bets` is a number or not.
FinalizedValues == {Num(t) : t \in 0..MaxTime} \cup {Undefined, BadString}
BetsValues == {Num(1), Undefined}
Settlements == [finalized_at : FinalizedValues, bets : BetsValues]
SettlementBatches == SeqsUpTo(Settlements, MaxBatch)

\* ------------------------------------------------------------------- state
VARIABLES
  script,         \* what runs: "fetch_bets", "sum_bets", "upsertBets" (one
                  \* sink call followed query by query) or "verifyBet"
  pc,             \* "loop" (at the while test), "awaiting" (request in
                  \* flight), "summary" (loop left), "done"
  noDb, outputFormat, maxPages, step, untilNonce, startNonce,  \* CLI options
  currentNonce,   \* fetch_bets: the sequence cursor
  keepGoing,
  pages,
  totalInserted,
  store,          \* rows of table `bets`, a bag: row -> number of copies
  dupPayloadSeen, \* the last committed upsertBets met a stored row with the
                  \* key of one of its rows and another payload
  out,            \* tokens written to outputStream by this run
  before,         \* sum_bets: the `before` query parameter of nextUrl
  numRecords, totalBets,
  summary,        \* the JSON summaries written to stdout
  exitCode,       \* process.exitCode
  reqCount,       \* number of page requests issued
  lastReq,        \* cursor of the last page request issued, <<>> if none
  lastResp,       \* how the last completed page request ended
  retrying,       \* the request in flight repeats the cursor of the previous
                  \* request, which failed with a transient error
  sinkPc,         \* upsertBets followed query by query: "idle", "inserting",
                  \* "rollback" (in the catch), "returned", "threw"
  sinkBets,       \* its argument `bets`
  sinkFailAt,     \* the row whose INSERT the database fails (0: none)
  sinkIdx,        \* the row the for-loop is at
  sinkBefore,     \* the table when upsertBets was called
  txStore,        \* the table as the open transaction sees it
  queries,        \* the statements the call has sent so far
  sinkRet,        \* the value returned
  ledger,         \* the records the upstream holds for Address, by nonce
                  \* (the scenario runs; <<>> where the upstream answers freely)
  vpc,            \* verifyBet: "idle", the fetch awaited, "returned", "threw"
  fetches,        \* the upstream requests verifyBet has issued, in order
  betData, userLogin, settlement, payoutDistribution,  \* <<>> until fetched
  verificationSteps,
  simulatedPayout,
  settlementBets, \* <<>> or <<the array getSettlementBets resolved with>>
  nextPage,       \* the page the upstream serves, where it is fixed before
                  \* the run (<<>> where the upstream answers freely)
  report,         \* <<>> or <<the BetVerification the promise resolved with>>
  vFailed,        \* <<>> or <<the fetch that rejected and its error>>
  vError          \* <<>> or <<the error the promise rejected with>>

vars == <<script, pc, noDb, outputFormat, maxPages, step, untilNonce,
          startNonce, currentNonce, keepGoing, pages, totalInserted, store,
          out, before, numRecords, totalBets, summary, exitCode, reqCount,
          lastReq, lastResp, dupPayloadSeen, retrying, sinkPc, sinkBets,
          sinkFailAt, sinkIdx, sinkBefore, txStore, queries, sinkRet,
          ledger, vpc, fetches, betData, userLogin, settlement,
          payoutDistribution, verificationSteps, simulatedPayout, report,
          vFailed, vError, settlementBets, nextPage>>

config == <<script, noDb, outputFormat, maxPages, step, untilNonce, startNonce>>
fetchVars == <<currentNonce, keepGoing, totalInserted, store, out, dupPayloadSeen>>
sumVars == <<before, numRecords, totalBets>>
sinkVars == <<sinkPc, sinkBets, sinkFailAt, sinkIdx, sinkBefore, txStore,
              queries, sinkRet>>
\* what a run of one of the scripts leaves alone
verifyVars == <<vpc, fetches, betData, userLogin, settlement,
                payoutDistribution, verificationSteps, simulatedPayout, report,
                vFailed, vError, settlementBets>>
restVars == <<ledger, nextPage, verifyVars>>
elsewhere == <<sinkVars, restVars>>

PagesUpToMax == maxPages.k = "inf" \/ pages <= maxPages.v

\* pages < maxPages, where maxPages may be Infinity (sum_bets default)
PagesBelowMax == maxPages.k = "inf" \/ pages < maxPages.v

\* ----------------------------------------------------- relational sink (pg)
Row(bet) == [address |-> Address, nonce |-> bet.nonce.v, payload |-> bet.payload]

\* column `nonce INTEGER NOT NULL`: undefined and a non-numeric string are
\* rejected by the database
NonceInsertable(bet) == bet.nonce.k = "num"

SameKey(r, row) == r.address = row.address /\ r.nonce = row.nonce

InsertNoConflictCheck(st, row) == st (+) SetToBag({row})

InsertOnConflictUpdate(st, row) ==
  [r \in {q \in DOMAIN st : ~SameKey(q, row)} |-> st[r]] (+) SetToBag({row})

\* INSERT ... ON CONFLICT (address, nonce) DO NOTHING
InsertOnConflictDoNothing(st, row) ==
  IF \E r \in DOMAIN st : SameKey(r, row)
  THEN st
  ELSE st (+) SetToBag({row})

\* The for-loop of upsertBets from row i on; failAt is the index of the row
\* whose INSERT the database fails for a reason of its own (0: none).
\* Result: <<TRUE, rows after the loop>> or <<FALSE, EmptyBag>> when a query threw.
RECURSIVE InsertRows(_, _, _, _)
InsertRows(st, bets, i, failAt) ==
  IF i > Len(bets) THEN <<TRUE, st>>
  ELSE IF i = failAt \/ ~NonceInsertable(bets[i]) THEN <<FALSE, EmptyBag>>
  ELSE InsertRows(InsertOnConflictDoNothing(st, Row(bets[i])), bets, i + 1, failAt)

\* Some row of the batch was skipped against a stored row of another payload
\* (after the inserts, st holds for each key the row that was inserted first).
MetOtherPayload(st, bets) ==
  \E i \in 1..Len(bets) : \E r \in DOMAIN st :
    SameKey(r, Row(bets[i])) /\ r.payload # bets[i].payload

\* upsertBets: BEGIN, the inserts, COMMIT; ROLLBACK and rethrow on error;
\* returns rows.length
upsertBets(st, bets, failAt) ==
  LET res == InsertRows(st, bets, 1, failAt) IN
  IF Len(bets) = 0 THEN [threw |-> FALSE, store |-> st, ret |-> 0]
  ELSE IF res[1] THEN [threw |-> FALSE, store |-> res[2], ret |-> Len(bets)]
  ELSE [threw |-> TRUE, store |-> st, ret |-> 0]

\* ------------------------------------------------ file sink (outputStream)
\* JSON.stringify(b) is one token; its content is not modelled.
RecToken == "rec"

RECURSIVE WriteJsonl(_, _)
WriteJsonl(o, n) ==
  IF n = 0 THEN o ELSE WriteJsonl(o, n - 1) \o <<RecToken, "\n">>

WriteJsonCommaWithinPage(o, total, n) ==
  o \o [i \in 1..(2 * n - 1) |-> IF i % 2 = 1 THEN RecToken ELSE ","]

\* for (i = 0; i < bets.length; i++) { if (totalInserted + i > 0) write(',');
\*                                     write(JSON.stringify(bets[i])) }
RECURSIVE WriteJson(_, _, _)
WriteJson(o, total, n) ==
  IF n = 0 THEN o
  ELSE LET prev == WriteJson(o, total, n - 1) IN
       IF total + (n - 1) > 0 THEN prev \o <<",", RecToken>>
       ELSE prev \o <<RecToken>>

\* -------------------------------------------- fetch_bets: cursor derivation
RECURSIVE ReduceMin(_, _, _)
ReduceMin(m, bets, i) ==
  IF i > Len(bets) THEN m
  ELSE ReduceMin(MathMin(m, ToNumber(OrInfinity(bets[i].nonce))), bets, i + 1)

\* bets.reduce((m, b) => Math.min(m, Number(b.nonce || Infinity)), Infinity)
MinNonce(bets) == ReduceMin(Infinity, bets, 1)

\* the cursor after a non-empty page requested at cur
NextNonce(cur, bets, stp) ==
  LET minNonce == MinNonce(bets) IN
  IF ~IsFinite(minNonce) THEN cur - 1
  ELSE IF stp > 0 THEN cur - stp
  ELSE minNonce.v - 1

\* untilNonce !== undefined && currentNonce <= untilNonce
ReachedUntil(cur, until) == until # <<>> /\ cur <= until[1]

Is404Never(err) == FALSE

\* err.response && err.response.status === 404
Is404(err) == err.response # <<>> /\ err.response[1] = 404

NonceAfterErrorSame(cur) == cur

NonceAfterErrorByTwo(cur) == cur - 2

\* catch block: currentNonce = currentNonce - 1
NonceAfterError(cur) == cur - 1

\* ------------------------------------------------------------------- Init
NoUntil == <<>>
NoLedger == <<>>

InitFetch ==
  /\ script = "fetch_bets"
  /\ noDb \in BOOLEAN
  /\ outputFormat \in {"json", "jsonl"}
  /\ (~noDb => outputFormat = "jsonl")
  /\ maxPages \in {Num(n) : n \in 1..MaxPagesBound}
  /\ step \in 0..MaxStep
  /\ untilNonce \in {NoUntil} \cup {<<n>> : n \in 0..MaxNonce}
  /\ startNonce \in 1..MaxNonce
  /\ currentNonce = startNonce
  /\ out = IF noDb /\ outputFormat = "json" THEN <<"[">> ELSE <<>>
  /\ before = 0

InitSum ==
  /\ script = "sum_bets"
  /\ noDb = FALSE /\ outputFormat = "jsonl" /\ step = 0
  /\ untilNonce = NoUntil /\ startNonce = 0 /\ currentNonce = 0
  /\ maxPages \in {Infinity} \cup {Num(n) : n \in 1..MaxPagesBound}
  /\ out = <<>>
  /\ before \in 1..MaxTime

\* verifyBet has not been called
VerifyIdle ==
  /\ vpc = "idle"
  /\ fetches = <<>>
  /\ betData = <<>> /\ userLogin = <<>> /\ settlement = <<>>
  /\ payoutDistribution = <<>>
  /\ verificationSteps = <<>>
  /\ simulatedPayout = <<>>
  /\ settlementBets = <<>>
  /\ report = <<>> /\ vFailed = <<>> /\ vError = <<>>

\* no upsertBets call is being followed
SinkIdle ==
  /\ sinkPc = "idle"
  /\ sinkBets = <<>> /\ sinkFailAt = 0 /\ sinkIdx = 0
  /\ sinkBefore = EmptyBag /\ txStore = EmptyBag
  /\ queries = <<>> /\ sinkRet = 0

Init ==
  /\ (InitFetch \/ InitSum)
  /\ SinkIdle
  /\ pc = "loop"
  /\ keepGoing = TRUE
  /\ pages = 0
  /\ totalInserted = 0
  /\ store = EmptyBag
  /\ dupPayloadSeen = FALSE
  /\ retrying = FALSE
  /\ numRecords = 0 /\ totalBets = 0
  /\ summary = <<>>
  /\ exitCode = 0
  /\ reqCount = 0
  /\ lastReq = <<>>
  /\ lastResp = "none"
  /\ ledger = NoLedger
  /\ nextPage = <<>>
  /\ VerifyIdle

\* ------------------------------------------------------ fetch_bets actions
\* while (keepGoing && pages < maxPages): the test holds, fetchBetsPage is
\* called and awaited
FetchBetsPage ==
  /\ script = "fetch_bets" /\ pc = "loop"
  /\ keepGoing /\ PagesBelowMax
  /\ reqCount < MaxRequests
  /\ pc' = "awaiting"
  /\ reqCount' = reqCount + 1
  /\ lastReq' = <<currentNonce>>
  /\ retrying' = (lastResp = "error" /\ lastReq = <<currentNonce>>)
  /\ UNCHANGED <<config, elsewhere, fetchVars, sumVars, pages, summary, exitCode, lastResp>>

\* the while test fails
FetchLoopExit ==
  /\ script = "fetch_bets" /\ pc = "loop"
  /\ ~(keepGoing /\ PagesBelowMax)
  /\ pc' = "summary"
  /\ UNCHANGED <<config, elsewhere, fetchVars, sumVars, pages, summary, exitCode,
                 reqCount, lastReq, lastResp, retrying>>

\* catch (err) { ... } of the loop body
CatchBlock(err) ==
  IF Is404(err)
  THEN /\ keepGoing' = FALSE
       /\ pc' = "summary"
       /\ UNCHANGED currentNonce
  ELSE /\ currentNonce' = NonceAfterError(currentNonce)
       /\ pc' = "loop"
       /\ UNCHANGED keepGoing

\* axios.get rejects: HTTP error status, network error or timeout
FetchThrows(err) ==
  /\ script = "fetch_bets" /\ pc = "awaiting"
  /\ CatchBlock(err)
  /\ lastResp' = IF err.response = <<404>> THEN "notfound" ELSE "error"
  /\ UNCHANGED <<config, elsewhere, sumVars, pages, totalInserted, store, out,
                 dupPayloadSeen, summary,
                 exitCode, reqCount, lastReq, retrying>>

\* res.data is not an array: fetchBetsPage throws a plain Error
FetchNonArray ==
  /\ script = "fetch_bets" /\ pc = "awaiting"
  /\ CatchBlock(PlainError)
  /\ lastResp' = "nonarray"
  /\ UNCHANGED <<config, elsewhere, sumVars, pages, totalInserted, store, out,
                 dupPayloadSeen, summary,
                 exitCode, reqCount, lastReq, retrying>>

\* bets.length === 0: break
FetchEmpty ==
  /\ script = "fetch_bets" /\ pc = "awaiting"
  /\ pc' = "summary"
  /\ lastResp' = "empty"
  /\ UNCHANGED <<config, elsewhere, fetchVars, sumVars, pages, summary, exitCode,
                 reqCount, lastReq, retrying>>

\* the rest of the try block after a non-empty page
AfterPersist(bets, insertedCount) ==
  /\ totalInserted' = totalInserted + insertedCount
  /\ pages' = pages + 1
  /\ currentNonce' = NextNonce(currentNonce, bets, step)
  /\ pc' = IF ReachedUntil(currentNonce', untilNonce) THEN "summary" ELSE "loop"
  /\ lastResp' = "batch"
  /\ UNCHANGED keepGoing

\* a non-empty page, database sink
FetchBatchDb(bets, failAt) ==
  /\ script = "fetch_bets" /\ pc = "awaiting" /\ ~noDb
  /\ LET res == upsertBets(store, bets, failAt) IN
       IF res.threw
       THEN /\ CatchBlock(PlainError)
            /\ lastResp' = "persistfail"
            /\ UNCHANGED <<pages, totalInserted, store, dupPayloadSeen>>
       ELSE /\ store' = res.store
            /\ dupPayloadSeen' = MetOtherPayload(res.store, bets)
            /\ AfterPersist(bets, res.ret)
  /\ UNCHANGED <<config, elsewhere, sumVars, out, summary, exitCode, reqCount, lastReq, retrying>>

\* a non-empty page, file sink
FetchBatchFile(bets) ==
  /\ script = "fetch_bets" /\ pc = "awaiting" /\ noDb
  /\ out' = IF outputFormat = "jsonl"
            THEN WriteJsonl(out, Len(bets))
            ELSE WriteJson(out, totalInserted, Len(bets))
  /\ AfterPersist(bets, Len(bets))
  /\ UNCHANGED <<config, elsewhere, sumVars, store, dupPayloadSeen, summary, exitCode,
                 reqCount, lastReq, retrying>>

\* console.log of the summary, closing of the stream and of the pool
FetchSummary ==
  /\ script = "fetch_bets" /\ pc = "summary"
  /\ summary' = Append(summary, [startNonce |-> startNonce,
                                 lastNonce |-> currentNonce,
                                 pages |-> pages,
                                 totalInserted |-> totalInserted])
  /\ out' = IF noDb /\ outputFormat = "json" THEN Append(out, "]") ELSE out
  /\ pc' = "done"
  /\ UNCHANGED <<config, elsewhere, sumVars, currentNonce, keepGoing, pages,
                 totalInserted, store, dupPayloadSeen, exitCode, reqCount,
                 lastReq, lastResp, retrying>>

\* -------------------------------------------------------- sum_bets actions
\* typeof record?.bets === 'number' ? record.bets : 0, summed over the page
RECURSIVE SumBetsValues(_, _)
SumBetsValues(records, i) ==
  IF i > Len(records) THEN 0
  ELSE (IF records[i].bets.k = "num" THEN records[i].bets.v ELSE 0)
       + SumBetsValues(records, i + 1)

\* typeof last.finalized_at === 'string' ? Date.parse(last.finalized_at)
\*                                        : undefined
LastFinalizedAt(records) ==
  LET f == records[Len(records)].finalized_at IN
  CASE f.k = "num" -> f
    [] f.k = "str" -> NaN
    [] OTHER -> Undefined

\* !lastFinalizedAt || Number.isNaN(lastFinalizedAt)
CannotPaginate(t) == t.k = "undefined" \/ t.k = "nan" \/ (t.k = "num" /\ t.v = 0)

\* while (pages < maxPages): the test holds, axios.get is called and awaited
SumRequest ==
  /\ script = "sum_bets" /\ pc = "loop"
  /\ PagesBelowMax
  /\ reqCount < MaxRequests
  /\ pc' = "awaiting"
  /\ reqCount' = reqCount + 1
  /\ lastReq' = <<before>>
  /\ retrying' = FALSE
  /\ UNCHANGED <<config, elsewhere, fetchVars, sumVars, pages, summary, exitCode, lastResp>>

\* the while test fails
SumLoopExit ==
  /\ script = "sum_bets" /\ pc = "loop"
  /\ ~PagesBelowMax
  /\ pc' = "summary"
  /\ UNCHANGED <<config, elsewhere, fetchVars, sumVars, pages, summary, exitCode,
                 reqCount, lastReq, lastResp, retrying>>

\* axios.get rejects: control leaves the loop for the outer catch, which sets
\* process.exitCode = 1; the summary is not printed
SumThrows(err) ==
  /\ script = "sum_bets" /\ pc = "awaiting"
  /\ exitCode' = 1
  /\ pc' = "done"
  /\ lastResp' = IF err.response = <<404>> THEN "notfound" ELSE "error"
  /\ UNCHANGED <<config, elsewhere, fetchVars, sumVars, pages, summary, reqCount, lastReq, retrying>>

\* !Array.isArray(response.data): console.error and break
SumNonArray ==
  /\ script = "sum_bets" /\ pc = "awaiting"
  /\ pc' = "summary"
  /\ lastResp' = "nonarray"
  /\ UNCHANGED <<config, elsewhere, fetchVars, sumVars, pages, summary, exitCode,
                 reqCount, lastReq, retrying>>

\* records.length === 0: break
SumEmpty ==
  /\ script = "sum_bets" /\ pc = "awaiting"
  /\ pc' = "summary"
  /\ lastResp' = "empty"
  /\ UNCHANGED <<config, elsewhere, fetchVars, sumVars, pages, summary, exitCode,
                 reqCount, lastReq, retrying>>

\* a non-empty page
SumBatch(records) ==
  /\ script = "sum_bets" /\ pc = "awaiting"
  /\ totalBets' = totalBets + SumBetsValues(records, 1)
  /\ numRecords' = numRecords + Len(records)
  /\ pages' = pages + 1
  /\ LET lastFinalizedAt == LastFinalizedAt(records) IN
       IF CannotPaginate(lastFinalizedAt)
       THEN /\ pc' = "summary"
            /\ UNCHANGED before
       ELSE /\ before' = lastFinalizedAt.v - 1
            /\ pc' = "loop"
  /\ lastResp' = "batch"
  /\ UNCHANGED <<config, elsewhere, fetchVars, summary, exitCode, reqCount, lastReq, retrying>>

\* console.log of the summary
SumSummary ==
  /\ script = "sum_bets" /\ pc = "summary"
  /\ summary' = Append(summary, [pagesFetched |-> pages,
                                 numRecords |-> numRecords,
                                 totalBets |-> totalBets])
  /\ pc' = "done"
  /\ UNCHANGED <<config, elsewhere, fetchVars, sumVars, pages, exitCode, reqCount,
                 lastReq, lastResp, retrying>>

\* -------------------------------------------------------------------- Next
\* the responses of the upstream, any of those the code can receive
FetchThrowsAny ==
  /\ script = "fetch_bets" /\ pc = "awaiting"
  /\ \E err \in HttpErrors : FetchThrows(err)

FetchBatchDbAny ==
  /\ script = "fetch_bets" /\ pc = "awaiting" /\ ~noDb
  /\ \E bets \in BetBatches : \E failAt \in 0..Len(bets) : FetchBatchDb(bets, failAt)

FetchBatchFileAny ==
  /\ script = "fetch_bets" /\ pc = "awaiting" /\ noDb
  /\ \E bets \in BetBatches : FetchBatchFile(bets)

SumThrowsAny ==
  /\ script = "sum_bets" /\ pc = "awaiting"
  /\ \E err \in HttpErrors : SumThrows(err)

SumBatchAny ==
  /\ script = "sum_bets" /\ pc = "awaiting"
  /\ \E records \in SettlementBatches : SumBatch(records)

Next ==
  \/ FetchBetsPage
  \/ FetchLoopExit
  \/ FetchThrowsAny
  \/ FetchNonArray
  \/ FetchEmpty
  \/ FetchBatchDbAny
  \/ FetchBatchFileAny
  \/ FetchSummary
  \/ SumRequest
  \/ SumLoopExit
  \/ SumThrowsAny
  \/ SumNonArray
  \/ SumEmpty
  \/ SumBatchAny
  \/ SumSummary

Spec == Init /\ [][Next]_vars

TypeOK ==
  /\ script \in {"fetch_bets", "sum_bets", "upsertBets", "verifyBet"}
  /\ pc \in {"loop", "awaiting", "summary", "done"}
  /\ Len(summary) <= 1
  /\ reqCount \in 0..MaxRequests

\* ------------------------------------- upsertBets, one query at a time
SinkBatches == {<<>>} \cup SeqsUpTo(Bets, MaxSinkBatch)

\* the table when upsertBets is called: empty, or a row of an earlier page
SinkTables ==
  {EmptyBag} \cup {SetToBag({Row(b)}) : b \in {x \in Bets : NonceInsertable(x)}}

\* neither script runs
ScriptsIdle ==
  /\ noDb = FALSE /\ outputFormat = "jsonl" /\ step = 0
  /\ maxPages = Infinity
  /\ untilNonce = NoUntil /\ startNonce = 0 /\ currentNonce = 0
  /\ out = <<>> /\ before = 0
  /\ pc = "done"
  /\ keepGoing = TRUE
  /\ pages = 0 /\ totalInserted = 0
  /\ dupPayloadSeen = FALSE /\ retrying = FALSE
  /\ numRecords = 0 /\ totalBets = 0
  /\ summary = <<>> /\ exitCode = 0
  /\ reqCount = 0 /\ lastReq = <<>> /\ lastResp = "none"
  /\ ledger = NoLedger
  /\ nextPage = <<>>

SinkInit ==
  /\ script = "upsertBets"
  /\ ScriptsIdle
  /\ store \in SinkTables
  /\ SinkIdle
  /\ VerifyIdle

scriptVars == <<config, fetchVars, sumVars, pc, pages, summary, exitCode,
                reqCount, lastReq, lastResp, retrying, restVars>>

RollbackKeepsRows(committed, working) == working

\* ROLLBACK: the rows written since BEGIN are discarded
Rollback(committed, working) == committed

\* COMMIT: the rows written since BEGIN become the table
Commit(committed, working) == working

\* upsertBets is called: `if (bets.length === 0) return 0`, else the rows are
\* built and BEGIN is sent
SinkCall(bets, failAt) ==
  /\ script = "upsertBets"
  /\ sinkPc = "idle"
  /\ sinkBets' = bets /\ sinkFailAt' = failAt
  /\ sinkBefore' = store /\ txStore' = store
  /\ sinkRet' = 0
  /\ IF Len(bets) = 0
     THEN /\ sinkPc' = "returned"
          /\ queries' = <<>>
          /\ sinkIdx' = 0
     ELSE /\ sinkPc' = "inserting"
          /\ queries' = <<"BEGIN">>
          /\ sinkIdx' = 1
  /\ UNCHANGED scriptVars

\* one INSERT of the for-loop succeeds
SinkInsert ==
  /\ script = "upsertBets" /\ sinkPc = "inserting"
  /\ sinkIdx <= Len(sinkBets)
  /\ sinkIdx # sinkFailAt /\ NonceInsertable(sinkBets[sinkIdx])
  /\ txStore' = InsertOnConflictDoNothing(txStore, Row(sinkBets[sinkIdx]))
  /\ queries' = Append(queries, "INSERT")
  /\ sinkIdx' = sinkIdx + 1
  /\ UNCHANGED <<scriptVars, sinkPc, sinkBets, sinkFailAt, sinkBefore,
                 sinkRet>>

\* one INSERT throws: control goes to the catch
SinkInsertFails ==
  /\ script = "upsertBets" /\ sinkPc = "inserting"
  /\ sinkIdx <= Len(sinkBets)
  /\ (sinkIdx = sinkFailAt \/ ~NonceInsertable(sinkBets[sinkIdx]))
  /\ queries' = Append(queries, "INSERT")
  /\ sinkPc' = "rollback"
  /\ UNCHANGED <<scriptVars, sinkBets, sinkFailAt, sinkIdx, sinkBefore,
                 txStore, sinkRet>>

\* catch (e) { await client.query('ROLLBACK'); throw e; }
SinkRollback ==
  /\ script = "upsertBets" /\ sinkPc = "rollback"
  /\ queries' = Append(queries, "ROLLBACK")
  /\ store' = Rollback(store, txStore)
  /\ sinkPc' = "threw"
  /\ UNCHANGED <<config, currentNonce, keepGoing, totalInserted, out,
                 dupPayloadSeen, sumVars, pc, pages, summary, exitCode,
                 reqCount, lastReq, lastResp, retrying, sinkBets, sinkFailAt,
                 sinkIdx, sinkBefore, txStore, sinkRet, restVars>>

\* after the last INSERT: COMMIT and `return rows.length`
SinkCommit ==
  /\ script = "upsertBets" /\ sinkPc = "inserting"
  /\ sinkIdx > Len(sinkBets)
  /\ queries' = Append(queries, "COMMIT")
  /\ store' = Commit(store, txStore)
  /\ sinkRet' = Len(sinkBets)
  /\ sinkPc' = "returned"
  /\ UNCHANGED <<config, currentNonce, keepGoing, totalInserted, out,
                 dupPayloadSeen, sumVars, pc, pages, summary, exitCode,
                 reqCount, lastReq, lastResp, retrying, sinkBets, sinkFailAt,
                 sinkIdx, sinkBefore, txStore, restVars>>

\* the call, with any batch and any failing row
SinkCallAny ==
  /\ script = "upsertBets" /\ sinkPc = "idle"
  /\ \E bets \in SinkBatches : \E failAt \in 0..Len(bets) : SinkCall(bets, failAt)

SinkNext ==
  \/ SinkCallAny
  \/ SinkInsert
  \/ SinkInsertFails
  \/ SinkRollback
  \/ SinkCommit

SpecSink == SinkInit /\ [][SinkNext]_vars

\* ------------------------- fetch_bets against an upstream with a fixed ledger
\* "The endpoint appears to return bets in descending nonce order": the
\* records of ldg whose nonce is in S, highest first
RECURSIVE Descending(_, _)
Descending(ldg, S) ==
  IF S = {} THEN <<>>
  ELSE LET top == CHOOSE n \in S : \A k \in S : k <= n IN
       <<[nonce |-> Num(top), payload |-> ldg[top]]>> \o Descending(ldg, S \ {top})

\* the answer to GET /solana/bets/{address}?nonce=c
UpstreamPage(ldg, c) == Descending(ldg, {n \in DOMAIN ldg : n <= c})

\* node fetch_bets_to_db.js --start-nonce 1000 (no --step, no --until-nonce,
\* --max-pages left at its default or set to 2), the upstream holding the
\* records 995..1000
ScenarioInit ==
  /\ script = "fetch_bets"
  /\ noDb \in BOOLEAN
  /\ outputFormat \in {"json", "jsonl"}
  /\ (~noDb => outputFormat = "jsonl")
  /\ maxPages \in {Num(2), Num(1000)}
  /\ step = 0
  /\ untilNonce = NoUntil
  /\ startNonce = 1000
  /\ currentNonce = startNonce
  /\ out = IF noDb /\ outputFormat = "json" THEN <<"[">> ELSE <<>>
  /\ before = 0
  /\ ledger \in [995..1000 -> Payloads]
  /\ nextPage = <<>>
  /\ SinkIdle
  /\ VerifyIdle
  /\ pc = "loop"
  /\ keepGoing = TRUE
  /\ pages = 0
  /\ totalInserted = 0
  /\ store = EmptyBag
  /\ dupPayloadSeen = FALSE
  /\ retrying = FALSE
  /\ numRecords = 0 /\ totalBets = 0
  /\ summary = <<>>
  /\ exitCode = 0
  /\ reqCount = 0
  /\ lastReq = <<>>
  /\ lastResp = "none"

\* the page in flight is answered from the ledger
ScenarioEmpty ==
  /\ script = "fetch_bets" /\ pc = "awaiting"
  /\ UpstreamPage(ledger, lastReq[1]) = <<>>
  /\ FetchEmpty

ScenarioBatchDb ==
  /\ script = "fetch_bets" /\ pc = "awaiting" /\ ~noDb
  /\ UpstreamPage(ledger, lastReq[1]) # <<>>
  /\ FetchBatchDb(UpstreamPage(ledger, lastReq[1]), 0)

ScenarioBatchFile ==
  /\ script = "fetch_bets" /\ pc = "awaiting" /\ noDb
  /\ UpstreamPage(ledger, lastReq[1]) # <<>>
  /\ FetchBatchFile(UpstreamPage(ledger, lastReq[1]))

ScenarioNext ==
  \/ FetchBetsPage
  \/ ScenarioEmpty
  \/ ScenarioBatchDb
  \/ ScenarioBatchFile
  \/ FetchSummary

SpecScenario == ScenarioInit /\ [][ScenarioNext]_vars

\* -------- fetch_bets against an upstream that pages through a small ledger
\* the upstream holds records for some of the nonces 0..MaxCursor
Ledgers ==
  UNION {[D -> {"p1"}] : D \in (SUBSET (0..MaxCursor)) \ {{}}}

\* node fetch_bets_to_db.js --start-nonce c (no --step, no --until-nonce,
\* --max-pages at its default)
LedgerInit ==
  /\ script = "fetch_bets"
  /\ noDb \in BOOLEAN
  /\ outputFormat \in {"json", "jsonl"}
  /\ (~noDb => outputFormat = "jsonl")
  /\ maxPages = Num(1000)
  /\ step = 0
  /\ untilNonce = NoUntil
  /\ startNonce \in 1..MaxCursor
  /\ currentNonce = startNonce
  /\ out = IF noDb /\ outputFormat = "json" THEN <<"[">> ELSE <<>>
  /\ before = 0
  /\ ledger \in Ledgers
  /\ nextPage = <<>>
  /\ SinkIdle
  /\ VerifyIdle
  /\ pc = "loop"
  /\ keepGoing = TRUE
  /\ pages = 0
  /\ totalInserted = 0
  /\ store = EmptyBag
  /\ dupPayloadSeen = FALSE
  /\ retrying = FALSE
  /\ numRecords = 0 /\ totalBets = 0
  /\ summary = <<>>
  /\ exitCode = 0
  /\ reqCount = 0
  /\ lastReq = <<>>
  /\ lastResp = "none"

\* the non-empty descending prefixes of the records at or below c
UpstreamPrefixes(ldg, c) ==
  {SubSeq(UpstreamPage(ldg, c), 1, n) : n \in 1..Len(UpstreamPage(ldg, c))}

LedgerEmpty ==
  /\ script = "fetch_bets" /\ pc = "awaiting"
  /\ UpstreamPage(ledger, lastReq[1]) = <<>>
  /\ FetchEmpty

LedgerBatchDb ==
  /\ script = "fetch_bets" /\ pc = "awaiting" /\ ~noDb
  /\ \E bets \in UpstreamPrefixes(ledger, lastReq[1]) :
       \E failAt \in 0..Len(bets) : FetchBatchDb(bets, failAt)

LedgerBatchFile ==
  /\ script = "fetch_bets" /\ pc = "awaiting" /\ noDb
  /\ \E bets \in UpstreamPrefixes(ledger, lastReq[1]) : FetchBatchFile(bets)

LedgerNext ==
  \/ FetchBetsPage
  \/ LedgerEmpty
  \/ LedgerBatchDb
  \/ LedgerBatchFile
  \/ FetchSummary

SpecLedger == LedgerInit /\ [][LedgerNext]_vars

\* ------------- fetch_bets, one page known beforehand, any start and step
CursorBets == [nonce : {Num(n) : n \in 0..MaxCursor} \cup {Undefined, BadString},
               payload : {"p1"}]
CursorPages == SeqsUpTo(CursorBets, MaxFixedPage)

\* node fetch_bets_to_db.js --start-nonce c --step s --max-pages 1
CursorInit ==
  /\ script = "fetch_bets"
  /\ noDb \in BOOLEAN
  /\ outputFormat \in {"json", "jsonl"}
  /\ (~noDb => outputFormat = "jsonl")
  /\ maxPages = Num(1)
  /\ step \in 0..MaxCursorStep
  /\ untilNonce = NoUntil
  /\ startNonce \in 1..MaxCursor
  /\ currentNonce = startNonce
  /\ out = IF noDb /\ outputFormat = "json" THEN <<"[">> ELSE <<>>
  /\ before = 0
  /\ ledger = NoLedger
  /\ nextPage \in CursorPages
  /\ SinkIdle
  /\ VerifyIdle
  /\ pc = "loop"
  /\ keepGoing = TRUE
  /\ pages = 0
  /\ totalInserted = 0
  /\ store = EmptyBag
  /\ dupPayloadSeen = FALSE
  /\ retrying = FALSE
  /\ numRecords = 0 /\ totalBets = 0
  /\ summary = <<>>
  /\ exitCode = 0
  /\ reqCount = 0
  /\ lastReq = <<>>
  /\ lastResp = "none"

\* the request in flight is answered with nextPage
CursorBatchDb == FetchBatchDb(nextPage, 0)
CursorBatchFile == FetchBatchFile(nextPage)

CursorNext ==
  \/ FetchBetsPage
  \/ FetchLoopExit
  \/ CursorBatchDb
  \/ CursorBatchFile
  \/ FetchSummary

SpecCursor == CursorInit /\ [][CursorNext]_vars

\* --------------------------- sum_bets, the first page known beforehand
TimePages == SeqsUpTo(Settlements, MaxFixedPage)

\* node sum_bets.js <url with before=t> (--max-pages 2 or none)
TimeInit ==
  /\ script = "sum_bets"
  /\ noDb = FALSE /\ outputFormat = "jsonl" /\ step = 0
  /\ untilNonce = NoUntil /\ startNonce = 0 /\ currentNonce = 0
  /\ maxPages \in {Infinity, Num(2)}
  /\ out = <<>>
  /\ before \in 1..MaxTime
  /\ ledger = NoLedger
  /\ nextPage \in TimePages
  /\ SinkIdle
  /\ VerifyIdle
  /\ pc = "loop"
  /\ keepGoing = TRUE
  /\ pages = 0
  /\ totalInserted = 0
  /\ store = EmptyBag
  /\ dupPayloadSeen = FALSE
  /\ retrying = FALSE
  /\ numRecords = 0 /\ totalBets = 0
  /\ summary = <<>>
  /\ exitCode = 0
  /\ reqCount = 0
  /\ lastReq = <<>>
  /\ lastResp = "none"

\* the first request is answered with nextPage, the second with []
TimeBatch == reqCount = 1 /\ SumBatch(nextPage)
TimeEmpty == reqCount = 2 /\ SumEmpty

TimeNext ==
  \/ SumRequest
  \/ TimeBatch
  \/ TimeEmpty
  \/ SumSummary

SpecTime == TimeInit /\ [][TimeNext]_vars

\* ------------------------------------------------------ ProovAPI.verifyBet
Tolerance == 1000
MultiplierScale == 10000

\* a response body that is JSON null
Null == [k |-> "null"]

\* the members of the signature triples read by steps 1 and 2
LoginFields == {"signed_message", "address", "signature"}
RequestFields == {"request_body", "user_key", "request_signature"}
\* all three present, or one missing
Triples(F) == {F} \cup {F \ {f} : f \in F}

RawBets == {1000}
RawWins == {0, 1, 1000, 2001}
BetDatas == [fields : Triples(RequestFields), raw_bet : RawBets, raw_win : RawWins]
UserLogins == [fields : Triples(LoginFields)]
VSettlements == [wagered : {1000, 2000}, won : {0, 1000}]
\* the keys of the object served by /games/distributions/{id}: multiplier
\* codes, or names that are no numbers
PayoutKeys == {Num(10000), Num(20000), BadString}
PayoutDistributions == SUBSET PayoutKeys
SettlementBet == [raw_bet : RawBets, raw_win : {0, 1000}]
\* the body served by /solana/bets/settlement/{address}/{nonce}: an array,
\* or one object
SettlementBetsBodies ==
  {[isArray |-> TRUE, items |-> b] :
      b \in {<<>>} \cup SeqsUpTo(SettlementBet, MaxSettlementBets)}
  \cup {[isArray |-> FALSE, items |-> <<b>>] : b \in SettlementBet}

\* the awaited calls of verifyBet, in program order
FetchOrder == <<"getBetDetails", "getGameDistribution", "getUserLogin",
                "getSettlement", "getPayoutDistribution", "getSolanaSigners",
                "getSettlementBets">>
FetchNames == {FetchOrder[i] : i \in 1..Len(FetchOrder)}

\* Array.isArray(response.data) ? response.data : [response.data]
AsArray(body) == body.items

\* the values multipliers[randomIndex] can take: the sort is a permutation
\* and randomIndex ranges over every index; on an empty table index 0 is
\* read and gives undefined
SelectableMultipliers(table) ==
  IF table = {} THEN {Undefined} ELSE {ToNumber(k) : k \in table}

\* The pairs <<raw_bet, code>>, among those the specifications below feed
\* in, whose product raw_bet * (code / 10000) in IEEE-754 double arithmetic
\* falls just below the integer raw_bet * code / 10000: 2900 / 10000 is the
\* double 0.28999999999999998 and 100 times it is 28.999999999999996. For
\* every other pair fed in the double product is exact.
FloorFallsShort == {<<100, 2900>>}

\* Math.floor(betData.raw_bet * (selectedMultiplier / 10000)), in doubles
simulateBetPayout(bet, selectedMultiplier) ==
  IF selectedMultiplier.k = "num"
  THEN Num((bet.raw_bet * selectedMultiplier.v) \div MultiplierScale
           - (IF <<bet.raw_bet, selectedMultiplier.v>> \in FloorFallsShort
              THEN 1 ELSE 0))
  ELSE NaN

AbsDifferenceSigned(sim, actual) ==
  IF sim.k = "num" THEN Num(sim.v - actual) ELSE NaN

\* Math.abs(simulatedPayout - betData.raw_win)
AbsDifference(sim, actual) ==
  IF sim.k = "num"
  THEN Num(IF sim.v >= actual THEN sim.v - actual ELSE actual - sim.v)
  ELSE NaN

WithinToleranceInclusive(difference) ==
  difference.k = "num" /\ difference.v <= Tolerance

\* Math.abs(...) < 1000
WithinTolerance(difference) ==
  difference.k = "num" /\ difference.v < Tolerance

RECURSIVE SumRaw(_, _, _)
\* settlementBets.reduce((sum, bet) => sum + bet.raw_bet, 0), likewise raw_win
SumRaw(bets, field, i) ==
  IF i > Len(bets) THEN 0
  ELSE (IF field = "raw_bet" THEN bets[i].raw_bet ELSE bets[i].raw_win)
       + SumRaw(bets, field, i + 1)

PushStepIfPassed(steps, n, result, data) ==
  IF result THEN Append(steps, [step |-> n, result |-> result, data |-> data])
  ELSE steps

\* verificationSteps.push({ step, description, result, data })
PushStep(steps, n, result, data) ==
  Append(steps, [step |-> n, result |-> result, data |-> data])

\* verification steps 1 to 5, built once the signers have arrived
StepsOneToFive(bet, login, sim) ==
  LET s1 == PushStep(<<>>, 1, TRUE, login.fields)
      s2 == PushStep(s1, 2, TRUE, bet.fields)
      s3 == PushStep(s2, 3, TRUE, "signers")
      d  == AbsDifference(sim, bet.raw_win)
      s4 == PushStep(s3, 4, WithinTolerance(d),
                     [expected |-> sim, actual |-> bet.raw_win, difference |-> d])
  IN PushStep(s4, 5, TRUE, "shard")

StepSixWageredOnly(steps, stl, bets) ==
  LET totalWagered == SumRaw(bets, "raw_bet", 1)
      totalWon == SumRaw(bets, "raw_win", 1)
  IN PushStep(steps, 6, stl.wagered = totalWagered,
              [settlement_wagered |-> stl.wagered, bets_wagered |-> totalWagered,
               settlement_won |-> stl.won, bets_won |-> totalWon])

\* verification step 6
StepSix(steps, stl, bets) ==
  LET totalWagered == SumRaw(bets, "raw_bet", 1)
      totalWon == SumRaw(bets, "raw_win", 1)
  IN PushStep(steps, 6, stl.wagered = totalWagered /\ stl.won = totalWon,
              [settlement_wagered |-> stl.wagered, bets_wagered |-> totalWagered,
               settlement_won |-> stl.won, bets_won |-> totalWon])

nonVerify == <<config, fetchVars, sumVars, pc, pages, summary, exitCode,
               reqCount, lastReq, lastResp, retrying, sinkVars, ledger,
               nextPage>>

VerifyInit ==
  /\ script = "verifyBet"
  /\ ScriptsIdle
  /\ store = EmptyBag
  /\ SinkIdle
  /\ VerifyIdle

\* verifyBet(address, nonce) is called: getBetDetails is awaited
VerifyBet ==
  /\ script = "verifyBet" /\ vpc = "idle"
  /\ vpc' = FetchOrder[1]
  /\ fetches' = <<FetchOrder[1]>>
  /\ UNCHANGED <<nonVerify, settlementBets, betData, userLogin, settlement, payoutDistribution,
                 verificationSteps, simulatedPayout, report, vFailed, vError>>

VerifyCatchPartial(err) ==
  /\ vpc' = "returned"
  /\ vError' = <<>>
  /\ report' = <<[verification_steps |-> verificationSteps,
                  simulated_payout |-> simulatedPayout]>>

\* catch (error) { console.error(...); throw error; }
VerifyCatch(err) ==
  /\ vpc' = "threw"
  /\ vError' = <<err>>
  /\ report' = <<>>

\* the awaited request rejects; the getter's own catch logs and rethrows
VerifyFetchFails(err) ==
  /\ script = "verifyBet" /\ vpc \in FetchNames
  /\ vFailed' = <<[fetch |-> vpc, error |-> err]>>
  /\ VerifyCatch(err)
  /\ UNCHANGED <<nonVerify, settlementBets, fetches, betData, userLogin, settlement,
                 payoutDistribution, verificationSteps, simulatedPayout>>

AwaitAhead(name) ==
  /\ vpc' = name
  /\ fetches' = Append(Append(fetches, name), "getSettlementBets")

\* the next awaited call
Await(name) ==
  /\ vpc' = name
  /\ fetches' = Append(fetches, name)

\* getBetDetails resolves; `betData.distribution_id` is read
GotBetDetails(body) ==
  /\ script = "verifyBet" /\ vpc = "getBetDetails"
  /\ betData' = <<body>>
  /\ IF body = Null
     THEN VerifyCatch(PlainError) /\ UNCHANGED fetches
     ELSE Await("getGameDistribution") /\ UNCHANGED <<report, vError>>
  /\ UNCHANGED <<nonVerify, settlementBets, userLogin, settlement, payoutDistribution,
                 verificationSteps, simulatedPayout, vFailed>>

\* getGameDistribution resolves; `betData.user_key` is read
GotGameDistribution ==
  /\ script = "verifyBet" /\ vpc = "getGameDistribution"
  /\ Await("getUserLogin")
  /\ UNCHANGED <<nonVerify, settlementBets, betData, userLogin, settlement, payoutDistribution,
                 verificationSteps, simulatedPayout, report, vFailed, vError>>

GotUserLogin(body) ==
  /\ script = "verifyBet" /\ vpc = "getUserLogin"
  /\ userLogin' = <<body>>
  /\ Await("getSettlement")
  /\ UNCHANGED <<nonVerify, settlementBets, betData, settlement, payoutDistribution,
                 verificationSteps, simulatedPayout, report, vFailed, vError>>

GotSettlement(body) ==
  /\ script = "verifyBet" /\ vpc = "getSettlement"
  /\ settlement' = <<body>>
  /\ Await("getPayoutDistribution")
  /\ UNCHANGED <<nonVerify, settlementBets, betData, userLogin, payoutDistribution,
                 verificationSteps, simulatedPayout, report, vFailed, vError>>

GotPayoutDistribution(body) ==
  /\ script = "verifyBet" /\ vpc = "getPayoutDistribution"
  /\ payoutDistribution' = <<body>>
  /\ Await("getSolanaSigners")
  /\ UNCHANGED <<nonVerify, settlementBets, betData, userLogin, settlement,
                 verificationSteps, simulatedPayout, report, vFailed, vError>>

\* getSolanaSigners resolves: steps 1 to 5 are pushed (reading a member of a
\* null login throws), the payout is simulated with a random multiplier,
\* getSettlementBets is awaited
GotSolanaSigners(selectedMultiplier) ==
  /\ script = "verifyBet" /\ vpc = "getSolanaSigners"
  /\ IF userLogin[1] = Null
     THEN /\ VerifyCatch(PlainError)
          /\ UNCHANGED <<fetches, verificationSteps, simulatedPayout>>
     ELSE /\ selectedMultiplier \in SelectableMultipliers(payoutDistribution[1])
          /\ simulatedPayout' = <<simulateBetPayout(betData[1], selectedMultiplier)>>
          /\ verificationSteps' =
               StepsOneToFive(betData[1], userLogin[1], simulatedPayout'[1])
          /\ Await("getSettlementBets")
          /\ UNCHANGED <<report, vError>>
  /\ UNCHANGED <<nonVerify, settlementBets, betData, userLogin, settlement, payoutDistribution,
                 vFailed>>

\* getSettlementBets resolves: step 6 is pushed and the report returned
GotSettlementBets(body) ==
  /\ script = "verifyBet" /\ vpc = "getSettlementBets"
  /\ settlementBets' = <<AsArray(body)>>
  /\ verificationSteps' = StepSix(verificationSteps, settlement[1], settlementBets'[1])
  /\ report' = <<[verification_steps |-> verificationSteps',
                  simulated_payout |-> simulatedPayout]>>
  /\ vpc' = "returned"
  /\ UNCHANGED <<nonVerify, fetches, betData, userLogin, settlement,
                 payoutDistribution, simulatedPayout, vFailed, vError>>

VerifyFetchFailsAny ==
  /\ script = "verifyBet" /\ vpc \in FetchNames
  /\ \E err \in HttpErrors : VerifyFetchFails(err)

GotBetDetailsAny ==
  /\ script = "verifyBet" /\ vpc = "getBetDetails"
  /\ \E body \in BetDatas \cup {Null} : GotBetDetails(body)

GotUserLoginAny ==
  /\ script = "verifyBet" /\ vpc = "getUserLogin"
  /\ \E body \in UserLogins \cup {Null} : GotUserLogin(body)

GotSettlementAny ==
  /\ script = "verifyBet" /\ vpc = "getSettlement"
  /\ \E body \in VSettlements : GotSettlement(body)

GotPayoutDistributionAny ==
  /\ script = "verifyBet" /\ vpc = "getPayoutDistribution"
  /\ \E body \in PayoutDistributions : GotPayoutDistribution(body)

GotSolanaSignersAny ==
  /\ script = "verifyBet" /\ vpc = "getSolanaSigners"
  /\ \E m \in {Undefined} \cup {ToNumber(k) : k \in PayoutKeys} : GotSolanaSigners(m)

GotSettlementBetsAny ==
  /\ script = "verifyBet" /\ vpc = "getSettlementBets"
  /\ \E body \in SettlementBetsBodies : GotSettlementBets(body)

VerifyNext ==
  \/ VerifyBet
  \/ VerifyFetchFailsAny
  \/ GotBetDetailsAny
  \/ GotGameDistribution
  \/ GotUserLoginAny
  \/ GotSettlementAny
  \/ GotPayoutDistributionAny
  \/ GotSolanaSignersAny
  \/ GotSettlementBetsAny

SpecVerify == VerifyInit /\ [][VerifyNext]_vars

\* ---------------------- verifyBet on bets and payout tables of a few codes
PayoutBets == [fields : {RequestFields}, raw_bet : {100, 1000}, raw_win : {0, 29, 290}]
PayoutCodes == {Num(2900), Num(10000), Num(20000), BadString}
PayoutSettlement == [wagered |-> 100, won |-> 29]
PayoutLogin == [fields |-> LoginFields]

PayoutGotBetDetails ==
  /\ script = "verifyBet" /\ vpc = "getBetDetails"
  /\ \E body \in PayoutBets : GotBetDetails(body)
PayoutGotUserLogin == GotUserLogin(PayoutLogin)
PayoutGotSettlement == GotSettlement(PayoutSettlement)
PayoutGotPayoutDistribution ==
  /\ script = "verifyBet" /\ vpc = "getPayoutDistribution"
  /\ \E body \in SUBSET PayoutCodes : GotPayoutDistribution(body)
PayoutGotSolanaSigners ==
  /\ script = "verifyBet" /\ vpc = "getSolanaSigners"
  /\ \E m \in {Undefined} \cup {ToNumber(k) : k \in PayoutCodes} : GotSolanaSigners(m)
PayoutGotSettlementBets ==
  /\ script = "verifyBet" /\ vpc = "getSettlementBets"
  /\ GotSettlementBets([isArray |-> TRUE,
                        items |-> <<[raw_bet |-> betData[1].raw_bet,
                                     raw_win |-> betData[1].raw_win]>>])

PayoutNext ==
  \/ VerifyBet
  \/ PayoutGotBetDetails
  \/ GotGameDistribution
  \/ PayoutGotUserLogin
  \/ PayoutGotSettlement
  \/ PayoutGotPayoutDistribution
  \/ PayoutGotSolanaSigners
  \/ PayoutGotSettlementBets

SpecPayout == VerifyInit /\ [][PayoutNext]_vars

\* ----------------- verifyBet on a settlement of three bets and its neighbours
\* the amounts at most one unit away from v
Near(v) == {x \in {v - 1, v, v + 1} : x >= 0}

\* arrays of three bets around raw wagers 100, 200, 300 and raw payouts
\* 0, 500, 0
SettleBatches ==
  {<<[raw_bet |-> a, raw_win |-> x], [raw_bet |-> b, raw_win |-> y],
     [raw_bet |-> c, raw_win |-> z]>> :
     <<a, b, c, x, y, z>> \in
        Near(100) \X Near(200) \X Near(300) \X Near(0) \X Near(500) \X Near(0)}

\* settlements declaring about 600 wagered and 500 won
SettleSettlements == [wagered : Near(600), won : Near(500)]

SettleBet == [fields |-> RequestFields, raw_bet |-> 100, raw_win |-> 0]
SettleLogin == [fields |-> LoginFields]
SettleTable == {Num(MultiplierScale)}

SettleGotBetDetails == GotBetDetails(SettleBet)
SettleGotUserLogin == GotUserLogin(SettleLogin)
SettleGotSettlement ==
  /\ script = "verifyBet" /\ vpc = "getSettlement"
  /\ \E body \in SettleSettlements : GotSettlement(body)
SettleGotPayoutDistribution == GotPayoutDistribution(SettleTable)
SettleGotSolanaSigners == GotSolanaSigners(Num(MultiplierScale))
SettleGotSettlementBets ==
  /\ script = "verifyBet" /\ vpc = "getSettlementBets"
  /\ \E items \in SettleBatches :
       GotSettlementBets([isArray |-> TRUE, items |-> items])

SettleNext ==
  \/ VerifyBet
  \/ SettleGotBetDetails
  \/ GotGameDistribution
  \/ SettleGotUserLogin
  \/ SettleGotSettlement
  \/ SettleGotPayoutDistribution
  \/ SettleGotSolanaSigners
  \/ SettleGotSettlementBets

SpecSettle == VerifyInit /\ [][SettleNext]_vars

\* ------------------------------------------------------------------ claims
Fetching == script = "fetch_bets"
Summing == script = "sum_bets"
LoopLeft == pc \in {"summary", "done"}
\* the cursor the next page request would use
Cursor == IF Fetching THEN currentNonce ELSE before

\* C1: a fetch_bets run issues at most maxPages page requests, the requests
\* that failed with a transient error included.
C1_AtMostMaxPagesRequests == Fetching => reqCount <= maxPages.v

\* C2: after every non-empty page of fetch_bets the derived cursor is strictly
\* smaller than the cursor the page was requested at.
C2_CursorStrictlyDecreases ==
  (Fetching /\ lastResp = "batch" /\ pc # "awaiting") => currentNonce < lastReq[1]

\* C3: in both loops, when the cursor derived after a non-empty page is not
\* strictly smaller than the cursor used for that page, no further page
\* request is issued.
C3_StallTerminates ==
  [][(lastResp = "batch" /\ pc # "awaiting" /\ Cursor >= lastReq[1])
       => reqCount' = reqCount]_vars

\* C4: the table holds at most one row per (address, nonce), and from any
\* reachable table contents a second upsertBets of a batch leaves the rows
\* that the first one left.
C4_IdempotentUpsert ==
  (Fetching /\ ~noDb) =>
    /\ \A r \in DOMAIN store :
         /\ store[r] = 1
         /\ \A q \in DOMAIN store : SameKey(q, r) => q = r
    /\ \A bets \in BetBatches :
         LET once == upsertBets(store, bets, 0) IN
         upsertBets(once.store, bets, 0).store = once.store

\* a committed upsertBets whose batch repeated stored keys
C4_Witness ==
  /\ Fetching /\ ~noDb /\ lastResp = "batch"
  /\ store # EmptyBag
  /\ totalInserted > BagCardinality(store)

\* C5: a stored row is never changed or removed by a later step; a batch
\* carrying its key with another payload leaves it as it was.
C5_StoredRowsNeverChange ==
  [][\A r \in DOMAIN store :
       r \in DOMAIN store' /\ store'[r] = store[r]]_vars

\* a committed upsertBets that met a stored key with another payload
C5_Witness ==
  /\ Fetching /\ ~noDb /\ lastResp = "batch"
  /\ dupPayloadSeen
  /\ store # EmptyBag

\* C6: what upsertBets returns for a page, and so what the page adds to
\* totalInserted, is the number of rows the page added to the table.
C6_ReturnCountsNewRows ==
  [][(Fetching /\ ~noDb /\ pc = "awaiting" /\ lastResp' = "batch")
       => totalInserted' - totalInserted
            = BagCardinality(store') - BagCardinality(store)]_vars

C8_EmptyOrNotFoundEnds ==
  /\ []((Fetching /\ lastResp \in {"empty", "notfound"})
          => /\ LoopLeft
             /\ exitCode = 0
             /\ (pc = "done" <=> Len(summary) = 1))
  /\ [][(Fetching /\ lastResp \in {"empty", "notfound"})
          => /\ reqCount' = reqCount
             /\ store' = store
             /\ totalInserted' = totalInserted /\ pages' = pages
             /\ (out' = out \/ out' = Append(out, "]"))
             /\ pc' = "done"]_vars

\* the run is over after a 404 that followed at least one persisted page
C8_Witness ==
  /\ Fetching /\ lastResp = "notfound" /\ pages >= 1
  /\ pc = "done" /\ Len(summary) = 1

\* C9: in sum_bets a 404 ends the loop like an empty page: the summary is
\* printed and the run is not marked as failed.
C9_SumNotFoundIsTerminal ==
  (Summing /\ lastResp = "notfound")
    => /\ exitCode = 0
       /\ (pc = "done" => Len(summary) = 1)

\* C10: no page request is issued at a cursor at or below untilNonce.
C10_NoRequestAtOrBelowUntil ==
  (Fetching /\ untilNonce # NoUntil /\ pc = "awaiting")
    => lastReq[1] > untilNonce[1]

\* C11: the pages counter never exceeds maxPages, and no page request is in
\* flight once it equals maxPages.
C11_PagesAtMostMaxPages ==
  (Fetching /\ maxPages.k = "num")
    => /\ pages <= maxPages.v
       /\ (pc = "awaiting" => pages < maxPages.v)

\* the loop was left because the counter reached maxPages
C11_Witness ==
  /\ Fetching /\ pages = maxPages.v /\ lastResp = "batch"
  /\ keepGoing /\ pc = "done" /\ reqCount = pages

\* C12: after a page request returned a payload that is not an array, no
\* further page request is issued and nothing more is persisted.
C12_NonArrayAborts ==
  [][(lastResp = "nonarray" /\ pc # "awaiting")
       => reqCount' = reqCount /\ store' = store]_vars

\* C14: after upsertBets threw for a page, no further page request is issued
\* and the cursor is not moved past the page.
C14_PersistFailureHalts ==
  /\ [][(Fetching /\ lastResp = "persistfail" /\ pc # "awaiting")
          => reqCount' = reqCount]_vars
  /\ []((Fetching /\ lastResp = "persistfail" /\ pc # "awaiting")
          => currentNonce = lastReq[1])

\* C15: a finished run, of either script and on every termination path, has
\* printed exactly one summary, whose figures are the counters of the run.
C15_AlwaysOneSummary ==
  pc = "done"
    => /\ Len(summary) = 1
       /\ IF Fetching
          THEN summary[1].pages = pages /\ summary[1].totalInserted = totalInserted
          ELSE summary[1].pagesFetched = pages /\ summary[1].numRecords = numRecords

Count(q, kinds) == Cardinality({i \in 1..Len(q) : q[i] \in kinds})

\* C13: when an INSERT of a batch fails, upsertBets leaves the table as it
\* was at the call and throws; a call that returns has committed every row;
\* and the one BEGIN of a call is open while the call runs and closed by
\* exactly one COMMIT or ROLLBACK when the call is over.
C13_AllOrNothing ==
  script = "upsertBets" =>
    /\ sinkPc \in {"inserting", "rollback"}
         => /\ store = sinkBefore
            /\ Count(queries, {"BEGIN"}) = 1
            /\ Count(queries, {"COMMIT", "ROLLBACK"}) = 0
    /\ sinkPc \in {"returned", "threw"}
         => /\ Count(queries, {"COMMIT", "ROLLBACK"}) = Count(queries, {"BEGIN"})
            /\ Count(queries, {"BEGIN"}) = IF Len(sinkBets) = 0 THEN 0 ELSE 1
            /\ LET r == upsertBets(sinkBefore, sinkBets, sinkFailAt) IN
                 /\ r.threw = (sinkPc = "threw")
                 /\ r.store = store
                 /\ (sinkPc = "returned" => sinkRet = r.ret)
    /\ sinkPc = "threw"
         => /\ store = sinkBefore
            /\ queries[Len(queries)] = "ROLLBACK"
            /\ \E i \in 1..Len(sinkBets) :
                 i = sinkFailAt \/ ~NonceInsertable(sinkBets[i])

\* an INSERT failed after an earlier row of the batch had been written
C13_Witness ==
  /\ script = "upsertBets" /\ sinkPc = "threw"
  /\ txStore # sinkBefore
  /\ store = sinkBefore

\* C16: the run started at cursor 1000 with no fixed step, against an upstream
\* whose first page holds the records 995..1000 and whose second page is
\* empty, ends having issued exactly two page requests, the second at cursor
\* 994, having persisted 6 records, and reports 2 pages.
InScenario == Fetching /\ startNonce = 1000 /\ DOMAIN ledger = 995..1000

C16_ScenarioReportsTwoPages ==
  (InScenario /\ pc = "done") =>
    /\ reqCount = 2
    /\ lastReq = <<994>>
    /\ totalInserted = 6
    /\ Len(summary) = 1
    /\ summary[1].pages = 2

\* what the run does report: everything the scenario says, with pages = 1
C16_ScenarioReportsOnePage ==
  (InScenario /\ pc = "done") =>
    /\ reqCount = 2
    /\ lastReq = <<994>>
    /\ lastResp = "empty"
    /\ totalInserted = 6
    /\ (~noDb => BagCardinality(store) = 6)
    /\ Len(summary) = 1
    /\ summary[1].pages = 1
    /\ summary[1].totalInserted = 6

Verifying == script = "verifyBet"
Steps == report[1].verification_steps

\* C17: every report verifyBet returns holds exactly six steps, numbered
\* 1, 2, 3, 4, 5, 6 in that order, whichever of them passed or failed.
C17_SixStepsInOrder ==
  (Verifying /\ report # <<>>) =>
    /\ vpc = "returned"
    /\ Len(Steps) = 6
    /\ \A i \in 1..6 : Steps[i].step = i

\* a report whose payout step and settlement step both failed
C17_Witness ==
  /\ Verifying /\ report # <<>>
  /\ Len(Steps) = 6
  /\ ~Steps[4].result /\ ~Steps[6].result

\* C18: when one of the seven upstream fetches of verifyBet fails, no report
\* is returned, not even a partial one; the promise rejects with the error of
\* that fetch; the failed fetch was issued once and was the last request,
\* and nothing is requested afterwards.
C18_FetchFailureNoReport ==
  /\ []((Verifying /\ vFailed # <<>>)
          => /\ vpc = "threw"
             /\ report = <<>>
             /\ vError = <<vFailed[1].error>>
             /\ \E k \in 1..Len(FetchOrder) :
                  /\ FetchOrder[k] = vFailed[1].fetch
                  /\ fetches = SubSeq(FetchOrder, 1, k))
  /\ [][(Verifying /\ vFailed # <<>>) => fetches' = fetches /\ vpc' = vpc]_vars
  /\ [][(Verifying /\ vFailed' # <<>>) => vpc \in FetchNames /\ vFailed = <<>>]_vars

\* the last fetch fails when five steps have already been built
C18_Witness ==
  /\ Verifying /\ vpc = "threw"
  /\ vFailed # <<>> /\ vFailed[1].fetch = "getSettlementBets"
  /\ Len(verificationSteps) = 5
  /\ report = <<>>

\* C19: step 1 passes only if the login session carries signed message,
\* public key and signature, and step 2 passes only if the bet carries request
\* body, user key and request signature; with a member missing the step is
\* reported as failed.
C19_TripleRequiredToPass ==
  (Verifying /\ report # <<>>) =>
    /\ (Steps[1].result => userLogin[1].fields = LoginFields)
    /\ (Steps[2].result => betData[1].fields = RequestFields)

StepFour == Steps[4]

\* C20: with integer raw amounts, step 4 passes when the simulated payout
\* differs from the recorded raw payout by exactly 1000 and fails when it
\* differs by 1001.
C20_ExactTolerancePasses ==
  (Verifying /\ report # <<>>) =>
    /\ (StepFour.data.difference = Num(Tolerance) => StepFour.result)
    /\ (StepFour.data.difference = Num(Tolerance + 1) => ~StepFour.result)

\* C20 (amended): step 4 passes exactly when the difference is below 1000:
\* it passes at 999 and fails at 1000 and at 1001 (and when no payout could
\* be simulated).
C20_BelowTolerancePasses ==
  (Verifying /\ report # <<>>) =>
    /\ StepFour.data.difference =
         AbsDifference(report[1].simulated_payout[1], betData[1].raw_win)
    /\ (StepFour.data.difference = Num(Tolerance - 1) => StepFour.result)
    /\ (StepFour.data.difference = Num(Tolerance) => ~StepFour.result)
    /\ (StepFour.data.difference = Num(Tolerance + 1) => ~StepFour.result)
    /\ (StepFour.result <=> /\ StepFour.data.difference.k = "num"
                            /\ StepFour.data.difference.v < Tolerance)

\* a report whose payout differs from the simulated one by exactly 1000
C20_Witness ==
  /\ Verifying /\ report # <<>>
  /\ StepFour.data.difference = Num(Tolerance)
  /\ ~StepFour.result

StepSixOf == Steps[6]
\* the array with the amount `field` of bet i changed by d
Changed(bets, i, field, d) ==
  [bets EXCEPT ![i] = IF field = "raw_bet"
                      THEN [@ EXCEPT !.raw_bet = @ + d]
                      ELSE [@ EXCEPT !.raw_win = @ + d]]
StepSixResult(stl, bets) == StepSix(<<>>, stl, bets)[1].result

\* C21: step 6 passes if and only if the raw wagers of the settlement's bets
\* sum to its declared wagered and their raw payouts sum to its declared won;
\* from a passing settlement, changing one constituent amount or one declared
\* total by 1 makes it fail; wagers 100, 200, 300 and payouts 0, 500, 0 with
\* 600/500 declared pass, and with won 501 declared fail with evidence
\* settlement_won = 501, bets_won = 500.
C21_SettlementConservation ==
  (Verifying /\ report # <<>> /\ Len(settlementBets[1]) = 3) =>
    LET bets == settlementBets[1]
        stl == settlement[1]
        wagers == bets[1].raw_bet + bets[2].raw_bet + bets[3].raw_bet
        payouts == bets[1].raw_win + bets[2].raw_win + bets[3].raw_win
    IN /\ StepSixOf.result <=> (wagers = stl.wagered /\ payouts = stl.won)
       /\ StepSixOf.result =>
            /\ \A i \in 1..3 : \A f \in {"raw_bet", "raw_win"} : \A d \in {-1, 1} :
                 ~StepSixResult(stl, Changed(bets, i, f, d))
            /\ \A d \in {-1, 1} :
                 /\ ~StepSixResult([stl EXCEPT !.wagered = @ + d], bets)
                 /\ ~StepSixResult([stl EXCEPT !.won = @ + d], bets)
       /\ (wagers = 600 /\ payouts = 500 /\ stl = [wagered |-> 600, won |-> 500])
            => StepSixOf.result
       /\ (wagers = 600 /\ payouts = 500 /\ stl = [wagered |-> 600, won |-> 501])
            => /\ ~StepSixOf.result
               /\ StepSixOf.data.settlement_won = 501
               /\ StepSixOf.data.bets_won = 500

\* the report on wagers 100, 200, 300 and payouts 0, 500, 0 with 600/501 declared
C21_Witness ==
  /\ Verifying /\ report # <<>>
  /\ settlementBets = <<<<[raw_bet |-> 100, raw_win |-> 0],
                          [raw_bet |-> 200, raw_win |-> 500],
                          [raw_bet |-> 300, raw_win |-> 0]>>>>
  /\ settlement = <<[wagered |-> 600, won |-> 501]>>
  /\ ~StepSixOf.result

\* C22: in every report the evidence of the comparing steps holds the inputs
\* that decided them and agrees with the result: step 4 carries expected,
\* actual and difference = |expected - actual| with result = (difference
\* within the tolerance); step 6 carries settlement_wagered, bets_wagered,
\* settlement_won and bets_won with result = (both pairs equal).
C22_EvidenceAgreesWithResult ==
  (Verifying /\ report # <<>>) =>
    LET d4 == StepFour.data
        d6 == StepSixOf.data
    IN /\ DOMAIN d4 = {"expected", "actual", "difference"}
       /\ d4.expected = simulatedPayout[1]
       /\ d4.actual = betData[1].raw_win
       /\ d4.expected.k = "num" =>
            /\ d4.difference.k = "num"
            /\ d4.difference.v >= 0
            /\ d4.difference.v \in {d4.expected.v - d4.actual,
                                    d4.actual - d4.expected.v}
            /\ StepFour.result <=> d4.difference.v < Tolerance
       /\ d4.expected.k # "num" => d4.difference = NaN /\ ~StepFour.result
       /\ DOMAIN d6 = {"settlement_wagered", "bets_wagered",
                       "settlement_won", "bets_won"}
       /\ d6.settlement_wagered = settlement[1].wagered
       /\ d6.settlement_won = settlement[1].won
       /\ d6.bets_wagered = SumRaw(settlementBets[1], "raw_bet", 1)
       /\ d6.bets_won = SumRaw(settlementBets[1], "raw_win", 1)
       /\ StepSixOf.result <=> /\ d6.settlement_wagered = d6.bets_wagered
                               /\ d6.settlement_won = d6.bets_won

\* a report whose recorded payout exceeds the simulated one by more than the
\* tolerance, and whose settlement totals agree
C22_Witness ==
  /\ Verifying /\ report # <<>>
  /\ StepFour.data.expected.k = "num"
  /\ StepFour.data.actual > StepFour.data.expected.v
  /\ StepFour.data.difference.v > Tolerance
  /\ ~StepFour.result /\ StepSixOf.result

\* requests are issued one at a time, and a page that is persisted is
\* persisted by the step that takes its response, before any other request
OneRequestAtATime ==
  /\ [][(Fetching /\ reqCount' # reqCount)
          => pc = "loop" /\ pc' = "awaiting" /\ reqCount' = reqCount + 1]_vars
  /\ [][(Fetching /\ pc = "awaiting") => pc' # "awaiting" /\ reqCount' = reqCount]_vars
  /\ [][(Fetching /\ (store' # store \/ (out' # out /\ pc' # "done")))
          => pc = "awaiting" /\ lastResp' = "batch" /\ pages' = pages + 1]_vars

\* C23: in one ingestion run at most one page request is outstanding, and
\* the records of a page are completely persisted (or written to the output
\* stream) before the next page request is issued: no look-ahead, pages are
\* requested and persisted in the same order.
C23_PersistedBeforeNextRequest ==
  /\ OneRequestAtATime
  /\ []((Fetching /\ pc = "awaiting" /\ reqCount >= 2)
          => lastResp # "persistfail")

\* subject record, game configuration, session, settlement, payout table,
\* signers, settlement batch
ClaimedFetchOrder ==
  <<"getBetDetails", "getGameDistribution", "getUserLogin", "getSettlement",
    "getPayoutDistribution", "getSolanaSigners", "getSettlementBets">>

\* C24: in one verifyBet run the upstream fetches are issued one at a time,
\* each only after the previous one has completed successfully, in the order
\* subject record, game configuration, session, settlement, payout table,
\* signers, settlement batch; the steps are appended in the order 1 to 6.
C24_FetchesInFixedOrder ==
  /\ [](Verifying =>
          /\ Len(fetches) <= 7
          /\ fetches = SubSeq(ClaimedFetchOrder, 1, Len(fetches))
          /\ (vpc \in FetchNames => vpc = fetches[Len(fetches)])
          /\ \A i \in 1..Len(verificationSteps) : verificationSteps[i].step = i)
  /\ [][(Verifying /\ fetches' # fetches)
          => /\ Len(fetches') = Len(fetches) + 1
             /\ vpc = (IF fetches = <<>> THEN "idle" ELSE fetches[Len(fetches)])
             /\ vpc' = fetches'[Len(fetches')]
             /\ vFailed' = <<>> /\ vError' = <<>>]_vars
  /\ [][(Verifying /\ verificationSteps' # verificationSteps)
          => /\ Len(verificationSteps') > Len(verificationSteps)
             /\ SubSeq(verificationSteps', 1, Len(verificationSteps))
                  = verificationSteps]_vars

\* a run that made all seven fetches and returned its report
C24_Witness ==
  /\ Verifying /\ vpc = "returned"
  /\ fetches = ClaimedFetchOrder
  /\ Len(verificationSteps) = 6

\* the sequences that can be read off the entries of a page
ReadableNonces(bets) ==
  {bets[i].nonce.v : i \in {j \in 1..Len(bets) : bets[j].nonce.k = "num"}}
\* the next cursor as the derivation rule states it
StatedNextCursor(c, bets, s) ==
  IF s > 0 THEN c - s
  ELSE IF ReadableNonces(bets) = {} THEN c - 1
  ELSE (CHOOSE n \in ReadableNonces(bets) : \A k \in ReadableNonces(bets) : n <= k) - 1

\* C25: after a non-empty page requested at cursor c, the next cursor is
\* c - s when a fixed step s > 0 is configured, otherwise (minimum sequence
\* in the batch) - 1, and c - 1 when no entry of the batch has a readable
\* sequence; the loop goes on.
C25_NextCursorDerivation ==
  [][(Fetching /\ pc = "awaiting" /\ nextPage # <<>> /\ lastResp' = "batch")
       => /\ currentNonce' = StatedNextCursor(currentNonce, nextPage, step)
          /\ pc' = "loop"]_vars

\* C26: after a non-empty page the next `before` cursor is the epoch value of
\* the last record's finalized_at minus 1; when that timestamp is missing or
\* unparsable the loop stops, no further request is issued, and the summary
\* is still printed and counts the records of that page.
C26_TimeCursorDerivation ==
  /\ [][(Summing /\ pc = "awaiting" /\ nextPage # <<>> /\ lastResp' = "batch")
          => LET f == nextPage[Len(nextPage)].finalized_at IN
             /\ numRecords' = numRecords + Len(nextPage)
             /\ IF f.k = "num"
                THEN before' = f.v - 1 /\ pc' = "loop"
                ELSE before' = before /\ pc' = "summary"]_vars
  /\ [][(Summing /\ nextPage # <<>> /\ pc = "summary")
          => /\ pc' = "done"
             /\ reqCount' = reqCount
             /\ Len(summary') = 1
             /\ summary'[1].numRecords = numRecords
             /\ summary'[1].pagesFetched = pages]_vars

\* what the loop does: as stated, but a timestamp at the epoch itself
\* (value 0) stops the loop like a missing one
TimeCursorZeroStops ==
  /\ [][(Summing /\ pc = "awaiting" /\ nextPage # <<>> /\ lastResp' = "batch")
          => LET f == nextPage[Len(nextPage)].finalized_at IN
             /\ numRecords' = numRecords + Len(nextPage)
             /\ IF f.k = "num" /\ f.v # 0
                THEN before' = f.v - 1 /\ pc' = "loop"
                ELSE before' = before /\ pc' = "summary"]_vars
  /\ [][(Summing /\ nextPage # <<>> /\ pc = "summary")
          => /\ pc' = "done"
             /\ reqCount' = reqCount
             /\ Len(summary') = 1
             /\ summary'[1].numRecords = numRecords
             /\ summary'[1].pagesFetched = pages]_vars

\* the multiplier codes of the payout table fetched
TableCodes == {k.v : k \in {x \in payoutDistribution[1] : x.k = "num"}}

\* C27: for a bet with raw wager w and a payout table with multiplier codes
\* M the simulated payout is floor(w * m / 10000) for some m of M; the
\* simulator is invoked once per verification, and the value it returned is
\* the one compared in step 4 and reported as simulated_payout.
C27_SimulatedPayoutIsFloor ==
  /\ []((Verifying /\ simulatedPayout # <<>> /\ TableCodes # {}
           /\ \A x \in payoutDistribution[1] : x.k = "num")
          => \E m \in TableCodes :
               simulatedPayout[1] = Num((betData[1].raw_bet * m) \div 10000))
  /\ []((Verifying /\ report # <<>>)
          => /\ StepFour.data.expected = simulatedPayout[1]
             /\ report[1].simulated_payout = simulatedPayout)
  /\ [][(Verifying /\ simulatedPayout # <<>>)
          => simulatedPayout' = simulatedPayout]_vars

\* apart from the rounding of the double product the claim holds: the value
\* is the floor for some code of the table, or one less where the product
\* falls short
SimulatedPayoutUpToRounding ==
  (Verifying /\ simulatedPayout # <<>> /\ TableCodes # {}
     /\ \A x \in payoutDistribution[1] : x.k = "num")
    => \E m \in TableCodes :
         /\ simulatedPayout[1].k = "num"
         /\ (betData[1].raw_bet * m) \div 10000 - simulatedPayout[1].v \in {0, 1}

\* the upstream's records at or below the start cursor
DueNonces == {n \in DOMAIN ledger : n <= startNonce}
\* record n has been persisted: its row is stored, or (file sink, where
\* records are written in the order they arrive) enough records were written
Persisted(n) ==
  IF noDb THEN totalInserted >= Cardinality(DueNonces)
  ELSE \E r \in BagToSet(store) : r.address = Address /\ r.nonce = n
EndedOnEmptyPage == Fetching /\ ledger # NoLedger /\ LoopLeft /\ lastResp = "empty"

\* C28: with no fixed step, no failing request and an upstream that answers
\* a request at cursor c with a non-empty descending prefix of its records
\* at or below c (empty only when there is none), a run that ends on an
\* empty page has persisted every upstream record at or below the start
\* cursor.
C28_IngestionComplete ==
  EndedOnEmptyPage => \A n \in DueNonces : Persisted(n)

\* the same of the runs in which no page failed to persist: every request
\* but the last brought a page that was counted
CompleteWhenEveryPagePersists ==
  (EndedOnEmptyPage /\ reqCount = pages + 1) => \A n \in DueNonces : Persisted(n)

\* C29: an iteration of the ingestion loop that fails, by a page request
\* failing with a non-404 error or by the page failing to persist, lowers
\* the cursor by exactly 1 and leaves the pages counter, the totalInserted
\* counter and the stored rows unchanged.
C29_FailedIterationEffect ==
  [][(Fetching /\ pc = "awaiting" /\ lastResp' \in {"error", "persistfail"})
       => /\ currentNonce' = currentNonce - 1
          /\ pages' = pages
          /\ totalInserted' = totalInserted
          /\ store' = store
          /\ out' = out]_vars

\* a page failed to persist after an earlier page had been stored
C29_Witness ==
  /\ Fetching /\ ~noDb /\ pc = "loop" /\ lastResp = "persistfail"
  /\ pages >= 1 /\ store # EmptyBag
  /\ currentNonce = lastReq[1] - 1

\* n records with one comma between consecutive ones
RECURSIVE Separated(_)
Separated(n) ==
  IF n = 0 THEN <<>>
  ELSE IF n = 1 THEN <<RecToken>>
  ELSE Separated(n - 1) \o <<",", RecToken>>

====
